---- MODULE Spec2Model ----
(***************************************************************************)
(* A model of rui_lopez: the Lazy Texture / glyph cache of                 *)
(* src/src/playground.rs and the component build pipeline of               *)
(* src/src/engines.rs.                                                     *)
(***************************************************************************)
EXTENDS Integers, Sequences, FiniteSets, TLC

VARIABLES
    lazy_tex,   \* the LazyTexture: [raw_data, tex_dims]
    texture,    \* the backend texture of the last materialization, or NoTexture
    call,       \* the last operation: its arguments and what it returned
    pc,         \* where the program is
    nops,       \* operations performed so far
    entity,     \* the LazySDLText: [text, size, color, built] (+ lazy_tex)
    tex,        \* the backend texture build_text is handed (texture_ori)
    brush,      \* the glyph layout engine (GlyphBrush)
    bt,         \* the build_text call in progress, or the last one
    prev,       \* what the build_text call before it returned
    ui          \* the window, what was built from it, the frame in progress

vars == <<lazy_tex, texture, call, pc, nops, entity, tex, brush, bt, prev, ui>>

texVars == <<lazy_tex, texture, call, nops>>
textVars == <<entity, tex, brush, bt, prev>>

(***************************************************************************)
(* Bounds of the model.                                                    *)
(***************************************************************************)
MaxDim == 2
MaxOps == 3
MaxBuilds == 2      \* build_text calls of a run
MaxUpdates == 1     \* pixel updates the engine emits in one process call
CallCap == 3        \* the call counters of a build_text stop counting here

DimVals == 0..MaxDim
Dims == DimVals \X DimVals

\* glyph_brush::Rectangle<u32> { min: [u32; 2], max: [u32; 2] }, non-empty
Rects == { r \in [min : Dims, max : Dims] :
             r.min[1] < r.max[1] /\ r.min[2] < r.max[2] }

RectWidth(r) == r.max[1] - r.min[1]
RectHeight(r) == r.max[2] - r.min[2]
RectPixels(r) == RectWidth(r) * RectHeight(r)
RectInside(rect, dims) == rect.max[1] <= dims[1] /\ rect.max[2] <= dims[2]

\* A payload of n bytes, 255, 254, ...: no byte is blank and every byte
\* tells its offset.
Ramp(n) == [k \in 1..n |-> (256 - k) % 256]

(***************************************************************************)
(* struct Color, and the colours the program uses.                         *)
(***************************************************************************)
Colors == { [r |-> 0, g |-> 255, b |-> 0, a |-> 0],
            [r |-> 255, g |-> 128, b |-> 7, a |-> 255] }

(***************************************************************************)
(* LazyTexture                                                             *)
(***************************************************************************)
Zeros(n) == [k \in 1..n |-> 0]

new_empty == [raw_data |-> <<>>, tex_dims |-> <<0, 0>>]

\* Vec::resize(new_len, 0): truncates, or extends with zeros; the kept prefix
\* keeps its content.
VecResize(v, n) ==
    [k \in 1..n |-> IF k <= Len(v) THEN v[k] ELSE 0]

\* resize as it would be with the buffer sized by the width alone.
resize_square(lt, dims) ==
    [raw_data |-> VecResize(lt.raw_data, dims[1] * dims[1]),
     tex_dims |-> dims]

\* resize that grows the buffer and forgets to record the new dimensions.
resize_buffer_only(lt, dims) ==
    [raw_data |-> VecResize(lt.raw_data, dims[1] * dims[2]),
     tex_dims |-> lt.tex_dims]

\* dims.0 * dims.1 is a u32 product; the dimensions of the model stay far
\* below the 2^16 at which it could wrap.
resize(lt, dims) ==
    [raw_data |-> VecResize(lt.raw_data, dims[1] * dims[2]),
     tex_dims |-> dims]

\* The loop of lazy_update from buffer index i on, j payload bytes consumed.
RECURSIVE lazy_update_loop(_, _, _, _, _, _)
lazy_update_loop(raw, dims, rect, data, i, j) ==
    IF i >= Len(raw)
    THEN [raw_data |-> raw,
          res |-> IF j < Len(data) THEN "SizeMismatch" ELSE "Ok"]
    ELSE IF dims[2] = 0 THEN [raw_data |-> raw, res |-> "Panic"]
    ELSE LET y == i \div dims[2] IN
         IF y >= rect.min[2] /\ y < rect.max[2]
         THEN IF dims[1] = 0 THEN [raw_data |-> raw, res |-> "Panic"]
              ELSE LET x == i % dims[1] IN
                   IF x >= rect.min[1] /\ x < rect.max[1]
                   THEN IF j >= Len(data)
                        THEN [raw_data |-> raw, res |-> "SizeMismatch"]
                        ELSE lazy_update_loop(
                                 [raw EXCEPT ![i + 1] = data[j + 1]],
                                 dims, rect, data, i + 1, j + 1)
                   ELSE lazy_update_loop(raw, dims, rect, data, i + 1, j)
         ELSE lazy_update_loop(raw, dims, rect, data, i + 1, j)

\* lazy_update with a failed call wiping the buffer instead of keeping it.
lazy_update_clear_on_error(lt, rect, data) ==
    LET r == lazy_update_loop(lt.raw_data, lt.tex_dims, rect, data, 0, 0)
    IN  IF r.res = "SizeMismatch"
        THEN [r EXCEPT !.raw_data = [i \in 1..Len(lt.raw_data) |-> 0]]
        ELSE r

lazy_update(lt, rect, data) ==
    lazy_update_loop(lt.raw_data, lt.tex_dims, rect, data, 0, 0)

(***************************************************************************)
(* The backend texture (sdl2::render::Texture) and its pixel format.       *)
(***************************************************************************)
Uninit == <<>>

NoTexture == [live |-> FALSE, id |-> 0, dims |-> <<0, 0>>, blend |-> "None",
              pixels |-> <<>>]

\* sdl2::rect::Rect::new clamps the width and the height to at least 1.
SdlRect(x, y, w, h) ==
    [x |-> x, y |-> y, w |-> IF w < 1 THEN 1 ELSE w,
     h |-> IF h < 1 THEN 1 ELSE h]

\* TextureCreator::create_texture_static(RGBA32, w, h): the pixels of a new
\* texture are not initialized. SDL refuses a dimension of 0.
create_texture_static(dims) ==
    [live |-> TRUE, id |-> 0, dims |-> dims, blend |-> "None",
     pixels |-> [p \in 1..(dims[1] * dims[2]) |-> Uninit]]

CanCreate(dims) == dims[1] > 0 /\ dims[2] > 0

set_blend_mode(t, mode) == [t EXCEPT !.blend = mode]

\* A u32 is its four bytes, the most significant first.
\* PixelFormatEnum::RGBA32 is ABGR8888 on a little-endian target and RGBA8888
\* on a big-endian one; Color::to_u32 packs the channels by the format's masks.
to_u32(e, r, g, b, a) ==
    IF e = "little" THEN <<a, b, g, r>> ELSE <<r, g, b, a>>

\* to_le_bytes in the place of to_ne_bytes.
to_le_bytes(e, v) == <<v[4], v[3], v[2], v[1]>>

\* u32::to_ne_bytes: the bytes in memory order, the least significant first
\* on a little-endian target.
to_ne_bytes(e, v) ==
    IF e = "little" THEN <<v[4], v[3], v[2], v[1]>> ELSE v

\* The loop of backup_update_texture: four native bytes per alpha byte.
RECURSIVE new_data_loop(_, _, _, _)
new_data_loop(e, raw, color, k) ==
    IF k > Len(raw) THEN <<>>
    ELSE to_ne_bytes(e, to_u32(e, color.r, color.g, color.b, raw[k]))
         \o new_data_loop(e, raw, color, k + 1)

BytesPerPixel == 4

\* Texture::update(rect, data, pitch) (SDL_UpdateTexture): the rectangle is
\* clipped to the texture; row ry of the rectangle is read at ry * pitch.
\* Bytes read beyond the end of data are whatever memory holds (garbage).
texture_update(t, rect, data, pitch, garbage) ==
    [t EXCEPT !.pixels =
        [p \in DOMAIN t.pixels |->
            LET px == (p - 1) % t.dims[1]
                py == (p - 1) \div t.dims[1]
            IN  IF /\ px >= rect.x /\ px < rect.x + rect.w
                   /\ py >= rect.y /\ py < rect.y + rect.h
                THEN LET off == (py - rect.y) * pitch
                                + BytesPerPixel * (px - rect.x)
                     IN  IF off + BytesPerPixel <= Len(data)
                         THEN SubSeq(data, off + 1, off + BytesPerPixel)
                         ELSE garbage
                ELSE t.pixels[p]]]

\* backup_update_texture(rect, texture, raw_data, color): the bytes handed to
\* the backend and the texture after the update.
backup_update_texture(e, rect, t, raw, color, garbage) ==
    LET pitch == BytesPerPixel * rect.w
        new_data == new_data_loop(e, raw, color, 1)
    IN  [new_data |-> new_data,
         tex |-> texture_update(t, rect, new_data, pitch, garbage)]

GarbagePixels == { <<0, 0, 0, 0>>, <<255, 255, 255, 255>> }

(***************************************************************************)
(* SDLPolygon and into_vertex.                                             *)
(***************************************************************************)
Pt(x, y) == [x |-> x, y |-> y]

\* glyph_brush::GlyphVertex: the place of the k-th glyph of a section on
\* screen (pixel_coords) and in the atlas (tex_coords).
GlyphVertex(section, k) ==
    [pixel_coords |-> [min |-> Pt(section.scale * (k - 1), 0),
                       max |-> Pt(section.scale * k, section.scale)],
     tex_coords |-> [min |-> Pt(k - 1, 0), max |-> Pt(k, 1)]]

\* The layout of a section: one vertex record per glyph, none at scale 0.
Layout(section) ==
    IF section.scale = 0 THEN <<>>
    ELSE [k \in 1..section.glyphs |-> GlyphVertex(section, k)]

SDL_Vertex(position, alpha, tex_coord) ==
    [position |-> position,
     color |-> [r |-> 255, g |-> 255, b |-> 255, a |-> alpha],
     tex_coord |-> tex_coord]

QuadVertices(vd, alpha) ==
    << SDL_Vertex(Pt(vd.pixel_coords.min.x, vd.pixel_coords.min.y), alpha,
                  Pt(vd.tex_coords.min.x, vd.tex_coords.min.y)),
       SDL_Vertex(Pt(vd.pixel_coords.min.x, vd.pixel_coords.max.y), alpha,
                  Pt(vd.tex_coords.min.x, vd.tex_coords.max.y)),
       SDL_Vertex(Pt(vd.pixel_coords.max.x, vd.pixel_coords.max.y), alpha,
                  Pt(vd.tex_coords.max.x, vd.tex_coords.max.y)),
       SDL_Vertex(Pt(vd.pixel_coords.max.x, vd.pixel_coords.min.y), alpha,
                  Pt(vd.tex_coords.max.x, vd.tex_coords.min.y)) >>

\* into_vertex with the quad closed on a fifth vertex that does not exist.
into_vertex_bad_index(vd) ==
    [vers |-> QuadVertices(vd, 255), inds |-> <<0, 1, 2, 2, 3, 4>>]

\* playground.rs: into_vertex (alpha_for_all_vertices = 255)
into_vertex(vd) ==
    [vers |-> QuadVertices(vd, 255), inds |-> <<0, 1, 2, 2, 3, 0>>]

\* engines.rs: into_vertex (global_alpha = 128)
sdl_into_vertex(vd) ==
    [vers |-> QuadVertices(vd, 128), inds |-> <<0, 1, 2, 2, 3, 0>>]

(***************************************************************************)
(* The glyph layout engine (glyph_brush::GlyphBrush), as build_text uses   *)
(* it: dims is the size of its atlas, queue the sections queued for the    *)
(* next process_queued, last_draw what the last Draw was computed from.    *)
(***************************************************************************)
GlyphCount(text) == IF text = "Hey" THEN 3 ELSE 2

Section(text, scale) ==
    [text |-> text, scale |-> scale, glyphs |-> GlyphCount(text)]

NoDraw == [some |-> FALSE, sections |-> <<>>]

DrawOf(sections) == [some |-> TRUE, sections |-> sections]

queue(b, section) == [b EXCEPT !.queue = Append(@, section)]

texture_dimensions(b) == b.dims

\* resize_texture that leaves the engine with the atlas it had.
resize_texture_ignored(b, dims) == b

\* resize_texture rebuilds the atlas and forgets the last draw.
resize_texture(b, dims) == [b EXCEPT !.dims = dims, !.last_draw = NoDraw]

\* process_queued answers ReDraw when the queued sections are those of the
\* last draw; after an Ok answer the queue is empty, after TextureTooSmall it
\* is kept for the retry.
WouldReDraw(b) == b.last_draw = DrawOf(b.queue)

AfterDraw(b) == [b EXCEPT !.last_draw = DrawOf(b.queue), !.queue = <<>>]

AfterReDraw(b) == [b EXCEPT !.queue = <<>>]

\* The sizes an atlas can have, and the engine can suggest.
AtlasDims == { <<1, 1>>, <<2, 1>>, <<1, 2>>, <<2, 2>> }

\* GlyphBrushBuilder::using_font(font).build(): the atlas the engine starts
\* with (the builder's default size, here the smallest atlas).
InitialAtlas == <<1, 1>>

\* The rectangles of its atlas the engine writes glyphs to: the whole atlas,
\* its first pixel, its last pixel.
GlyphRects(b) ==
    { [min |-> <<0, 0>>, max |-> b.dims],
      [min |-> <<0, 0>>, max |-> <<1, 1>>],
      [min |-> <<b.dims[1] - 1, b.dims[2] - 1>>, max |-> b.dims] }

\* The engine asks for growth: never for less than the atlas it has.
Suggestions(b) ==
    { d \in AtlasDims : d[1] >= b.dims[1] /\ d[2] >= b.dims[2] }

(***************************************************************************)
(* LazySDLText                                                             *)
(***************************************************************************)
TextColor == [r |-> 0, g |-> 255, b |-> 0, a |-> 0]

Texts == {"Hey", "wo"}
Sizes == {300, 0}

LazySDLText_new(text, size, color) ==
    [text |-> text, size |-> size, color |-> color, built |-> <<>>]

\* The match on the brush action with ReDraw dropping the cached polygons.
match_brush_action_clear(built, action, vertices) ==
    IF action = "Draw" THEN vertices ELSE <<>>

\* match brush_action.unwrap(): Draw(vertices) replaces built, ReDraw keeps it.
match_brush_action(built, action, vertices) ==
    IF action = "Draw" THEN vertices ELSE built

NoBuild == [active |-> FALSE, returned |-> FALSE, dirty |-> FALSE,
            nqueue |-> 0, nprocess |-> 0, ntoosmall |-> 0, nresize |-> 0,
            nupd |-> 0,
            answers |-> <<>>, suggested |-> <<0, 0>>, action |-> "none",
            failure |-> "none", mismatch |-> FALSE, updated_id |-> 0,
            glyphs |-> <<>>, vertices |-> <<>>, ret |-> <<>>]

NoPrev == [valid |-> FALSE, ret |-> <<>>]

NoBrush == [dims |-> <<0, 0>>, queue |-> <<>>, last_draw |-> NoDraw]

IdleText ==
    /\ entity = LazySDLText_new("Hey", 300, TextColor)
    /\ tex = NoTexture
    /\ brush = NoBrush
    /\ bt = NoBuild
    /\ prev = NoPrev

(***************************************************************************)
(* Components, and what the SDL engine builds from them.                   *)
(***************************************************************************)
Relative(n) == [tag |-> "Relative", value |-> n]

MainMenu == [kind |-> "MainMenu"]

Container(children) ==
    [kind |-> "Container", width |-> Relative(-1), height |-> Relative(-1),
     children |-> children]

Button == [kind |-> "Button", title |-> "Button"]

TextField == [kind |-> "TextField", text |-> "TextField", editable |-> FALSE]

RUIIcon == [kind |-> "RUIIcon"]

SDLText == [kind |-> "SDLText"]

\* The components built in the model; main's container holds a TextField and
\* a Button.
Components ==
    { MainMenu, Container(<<>>), Container(<<TextField, Button>>), Button,
      TextField, RUIIcon, SDLText }

\* The parents handed to a build: the pseudo parent of SDLWindow::build and
\* main's container. No build reads its parent.
Parents == { RUIIcon, Container(<<TextField, Button>>) }

SDLPolygon(vers, inds) == [vers |-> vers, inds |-> inds]

SDLTexturedPolygon(poly, t) == [poly |-> poly, tex |-> t]

SDLBody(name, polygons) == [name |-> name, polygons |-> polygons]

\* What a call comes to: it returns a value, or it halts the process (todo!()).
Returns(v) == [returned |-> TRUE, value |-> v]

Todo == [returned |-> FALSE, value |-> <<>>]

IconVertex(x, y, r, g, b) ==
    [position |-> Pt(x, y), color |-> [r |-> r, g |-> g, b |-> b, a |-> 255],
     tex_coord |-> Pt(0, 0)]

MainMenu_build(self, parent) == Returns(SDLBody("MainMenu", <<>>))

Container_build(self, parent) == Todo

\* The icon drawn as a segment: two vertices only.
RUIIcon_build_segment(self, parent) ==
    Returns(SDLBody("RUIIcon",
        << SDLTexturedPolygon(
               SDLPolygon(<< IconVertex(400, 150, 255, 0, 0),
                             IconVertex(200, 450, 0, 0, 255) >>, <<>>),
               "None") >>))

RUIIcon_build(self, parent) ==
    Returns(SDLBody("RUIIcon",
        << SDLTexturedPolygon(
               SDLPolygon(<< IconVertex(400, 150, 255, 0, 0),
                             IconVertex(200, 450, 0, 0, 255),
                             IconVertex(600, 450, 0, 255, 0) >>, <<>>),
               "None") >>))

SDLText_build(self, parent) == Returns(SDLBody("SDLText", <<>>))

Button_build(self, parent) == Todo

TextField_build(self, parent) == Todo

\* SDLComponent::build, by the variant of the component.
build(self, parent) ==
    CASE self.kind = "MainMenu" -> MainMenu_build(self, parent)
      [] self.kind = "Container" -> Container_build(self, parent)
      [] self.kind = "RUIIcon" -> RUIIcon_build(self, parent)
      [] self.kind = "SDLText" -> SDLText_build(self, parent)
      [] self.kind = "Button" -> Button_build(self, parent)
      [] self.kind = "TextField" -> TextField_build(self, parent)

\* Component::get_height: the Container hands out its field, every other
\* impl is todo!().
get_height(self) ==
    IF self.kind = "Container" THEN Returns(self.height) ELSE Todo

\* Component::get_width, likewise.
get_width(self) ==
    IF self.kind = "Container" THEN Returns(self.width) ELSE Todo

\* Box<dyn NativeDrawable>: a drawable behind the erased type, with the
\* concrete type a downcast finds in it.
BoxDyn(type, value) == [type |-> type, value |-> value]

\* Component::build_dyn, the same in every impl: Box::new(self.build(parent)).
build_dyn(self, parent) ==
    IF build(self, parent).returned
    THEN Returns(BoxDyn("SDLBody", build(self, parent).value))
    ELSE Todo

\* A downcast that hands out whatever is in the box.
dyn_to_sdl_body_unchecked(drawable) == Returns(drawable.value)

\* dyn_to_sdl_body: *self.downcast::<SDLBody>().expect(..); the expect halts
\* the process on a box that holds another type.
dyn_to_sdl_body(drawable) ==
    IF drawable.type = "SDLBody" THEN Returns(drawable.value) ELSE Todo

\* A drawable of a type the engine does not know.
ForeignDrawable == BoxDyn("Foreign", <<>>)

\* elements::Window: which of its optional parts are there.
Windows == [menu : BOOLEAN, container : BOOLEAN, status_bar : BOOLEAN]

\* SDLWindow::build with a body for the container as well.
SDLWindow_build_with_container(window) ==
    LET icon == RUIIcon_build(RUIIcon, RUIIcon).value
        menu == IF window.menu
                THEN <<MainMenu_build(MainMenu, RUIIcon).value>> ELSE <<>>
        container == IF window.container
                     THEN <<SDLBody("Container", <<>>)>> ELSE <<>>
    IN  <<icon>> \o menu \o container

\* SDLWindow::build: the icon, then the menu if there is one.
SDLWindow_build(window) ==
    LET pseudo == RUIIcon
        icon == RUIIcon_build(RUIIcon, pseudo).value
        res == <<icon>>
    IN  IF window.menu THEN Append(res, MainMenu_build(MainMenu, pseudo).value)
        ELSE res

NoBuilt == [some |-> FALSE, comp |-> RUIIcon, parent |-> RUIIcon,
            result |-> Todo]

NoDyn == [some |-> FALSE, comp |-> RUIIcon, parent |-> RUIIcon,
          result |-> Todo]

NoCast == [some |-> FALSE, drawable |-> ForeignDrawable, result |-> Todo]

NoDim == [some |-> FALSE, comp |-> RUIIcon, which |-> "height",
          result |-> Todo]

NoFrame == [active |-> FALSE, drawables |-> <<>>, body |-> 1, polygon |-> 1,
            submitted |-> <<>>, result |-> "none", presented |-> FALSE]

IdleUi == [window |-> [menu |-> FALSE, container |-> FALSE,
                       status_bar |-> FALSE],
           built |-> NoBuilt, dyn |-> NoDyn, cast |-> NoCast, dim |-> NoDim,
           drawables |-> <<>>, frame |-> NoFrame]

(***************************************************************************)
(* The operations of a LazyTexture, called in any order.                   *)
(***************************************************************************)
NoRect == [min |-> <<0, 0>>, max |-> <<0, 0>>]

NoCall == [op |-> "none", dims |-> <<0, 0>>, rect |-> NoRect, data |-> <<>>,
           res |-> "Ok", color |-> CHOOSE c \in Colors : TRUE,
           new_data |-> <<>>]

\* The payloads tried on a rectangle: one byte less than its pixel count,
\* exactly its pixel count, one byte more.
PayloadsOf(rect) ==
    { Ramp(n) : n \in {RectPixels(rect) - 1, RectPixels(rect),
                       RectPixels(rect) + 1} }

Endians == {"little", "big"}

InitTex ==
    /\ lazy_tex = new_empty
    /\ texture = NoTexture
    /\ call = NoCall
    /\ pc = "main"
    /\ nops = 0
    /\ IdleText
    /\ ui = IdleUi

DoResize(dims) ==
    /\ pc = "main"
    /\ nops < MaxOps
    /\ lazy_tex' = resize(lazy_tex, dims)
    /\ call' = [NoCall EXCEPT !.op = "resize", !.dims = dims]
    /\ nops' = nops + 1
    /\ UNCHANGED <<texture, pc>>
    /\ UNCHANGED <<textVars, ui>>

DoLazyUpdate(rect, data) ==
    /\ pc = "main"
    /\ nops < MaxOps
    /\ LET r == lazy_update(lazy_tex, rect, data) IN
        /\ lazy_tex' = [lazy_tex EXCEPT !.raw_data = r.raw_data]
        /\ call' = [NoCall EXCEPT !.op = "lazy_update", !.rect = rect,
                                  !.data = data, !.res = r.res]
        /\ pc' = IF r.res = "Panic" THEN "panic" ELSE pc
    /\ nops' = nops + 1
    /\ UNCHANGED texture
    /\ UNCHANGED <<textVars, ui>>

\* create_texture: Err when the backend creates no texture, a panic when the
\* backend refuses the update (expect), else the materialized texture.
\* endian is the byte order of the build target.
DoCreateTexture(endian, color, created, updated, garbage) ==
    /\ pc = "main"
    /\ nops < MaxOps
    /\ nops' = nops + 1
    /\ IF ~(created /\ CanCreate(lazy_tex.tex_dims))
       THEN /\ call' = [NoCall EXCEPT !.op = "create_texture", !.res = "Err",
                                      !.color = color]
            /\ UNCHANGED <<texture, pc>>
       ELSE LET t0 == set_blend_mode(
                          create_texture_static(lazy_tex.tex_dims), "Blend")
                rect == SdlRect(0, 0, lazy_tex.tex_dims[1],
                                lazy_tex.tex_dims[2])
                u == backup_update_texture(endian, rect, t0,
                                           lazy_tex.raw_data, color, garbage)
            IN  IF updated
                THEN /\ texture' = u.tex
                     /\ call' = [NoCall EXCEPT !.op = "create_texture",
                                    !.color = color, !.new_data = u.new_data]
                     /\ pc' = pc
                ELSE /\ pc' = "panic"
                     /\ call' = [NoCall EXCEPT !.op = "create_texture",
                                    !.res = "Panic", !.color = color]
                     /\ UNCHANGED texture
    /\ UNCHANGED lazy_tex
    /\ UNCHANGED <<textVars, ui>>

\* LazyTexture::update: the whole buffer pushed into an existing texture.
DoUpdate(endian, color, updated, garbage) ==
    /\ pc = "main"
    /\ nops < MaxOps
    /\ texture.live
    /\ nops' = nops + 1
    /\ LET rect == SdlRect(0, 0, lazy_tex.tex_dims[1], lazy_tex.tex_dims[2])
           u == backup_update_texture(endian, rect, texture,
                                      lazy_tex.raw_data, color, garbage)
       IN  IF updated
           THEN /\ texture' = u.tex
                /\ call' = [NoCall EXCEPT !.op = "update", !.color = color,
                                          !.new_data = u.new_data]
                /\ pc' = pc
           ELSE /\ pc' = "panic"
                /\ call' = [NoCall EXCEPT !.op = "update", !.res = "Panic",
                                          !.color = color]
                /\ UNCHANGED texture
    /\ UNCHANGED lazy_tex
    /\ UNCHANGED <<textVars, ui>>

NextTex ==
    \/ \E dims \in Dims : DoResize(dims)
    \/ \E rect \in Rects : \E data \in PayloadsOf(rect) :
          DoLazyUpdate(rect, data)
    \/ \E endian \in Endians, color \in Colors, created \in BOOLEAN,
          updated \in BOOLEAN, garbage \in GarbagePixels :
          DoCreateTexture(endian, color, created, updated, garbage)
    \/ \E endian \in Endians, color \in Colors, updated \in BOOLEAN,
          garbage \in GarbagePixels :
          DoUpdate(endian, color, updated, garbage)

SpecTex == InitTex /\ [][NextTex]_vars

(***************************************************************************)
(* LazySDLText::build_text, step by step, against the layout engine and    *)
(* the backend. pc: "main" between calls, "loop" at the top of the loop,   *)
(* "caching" inside process_queued, "grow_*" in the TextureTooSmall arm,   *)
(* "match" after the loop, "panic" once the process has halted.            *)
(***************************************************************************)
Sat(n) == IF n < CallCap THEN n + 1 ELSE CallCap

\* The first answer of the engine in a build_text is kept.
Logged(answers, a) == IF answers = <<>> THEN <<a>> ELSE answers

\* The byte order of the target build_text runs on; both orders are explored
\* on the LazyTexture operations above.
TargetEndian == "little"

NextId(id) == (id + 1) % (CallCap + 1)

OtherSection == Section("asd", 0)

\* main: the brush is built, texture_ori created with the brush's atlas
\* dimensions and blend mode Blend, the entity created empty.
InitText ==
    /\ lazy_tex = new_empty
    /\ texture = NoTexture
    /\ call = NoCall
    /\ pc = "main"
    /\ nops = 0
    /\ entity = LazySDLText_new("Hey", 300, TextColor)
    /\ brush = [NoBrush EXCEPT !.dims = InitialAtlas]
    /\ tex = set_blend_mode(create_texture_static(texture_dimensions(brush)),
                            "Blend")
    /\ bt = NoBuild
    /\ prev = NoPrev
    /\ ui = IdleUi

\* build_text up to the loop: the section is queued.
BuildTextStart ==
    /\ pc = "main"
    /\ nops < MaxBuilds
    /\ nops' = nops + 1
    /\ brush' = queue(brush, Section(entity.text, entity.size))
    /\ prev' = [valid |-> bt.returned /\ ~bt.dirty, ret |-> bt.ret]
    /\ bt' = [NoBuild EXCEPT !.active = TRUE, !.nqueue = 1]
    /\ pc' = "loop"
    /\ UNCHANGED <<lazy_tex, texture, call, ui, entity, tex>>

\* process_queued on sections that are those of the last draw: ReDraw.
ProcessReDraw ==
    /\ pc = "loop"
    /\ WouldReDraw(brush)
    /\ brush' = AfterReDraw(brush)
    /\ bt' = [bt EXCEPT !.nprocess = Sat(@), !.nupd = 0, !.action = "ReDraw",
                        !.answers = Logged(@, [kind |-> "Ok",
                                               suggested |-> <<0, 0>>])]
    /\ pc' = "match"
    /\ UNCHANGED <<lazy_tex, texture, call, ui, nops, entity, tex, prev>>

\* process_queued on other sections: the engine lays the glyphs out.
ProcessBegin ==
    /\ pc = "loop"
    /\ ~WouldReDraw(brush)
    /\ bt' = [bt EXCEPT !.nprocess = Sat(@), !.nupd = 0]
    /\ pc' = "caching"
    /\ UNCHANGED <<lazy_tex, texture, call, ui, nops, entity, tex, brush, prev>>

\* The pixel-update callback: the engine wrote rect of its atlas. The result of
\* lazy_update is dropped; backup_update_texture panics when the backend
\* refuses the update. The bytes handed over cover the rectangle (4 per byte
\* of tex_data, pitch 4 * width), so the backend reads nothing beyond them.
PixelUpdate(rect, updated) ==
    /\ pc = "caching"
    /\ bt.nupd < MaxUpdates
    /\ rect \in GlyphRects(brush)
    /\ LET tex_data == Ramp(RectPixels(rect))
           r == lazy_update(lazy_tex, rect, tex_data)
           sdl_rect == SdlRect(rect.min[1], rect.min[2], RectWidth(rect),
                               RectHeight(rect))
           u == backup_update_texture(TargetEndian, sdl_rect, tex, tex_data,
                                      entity.color, <<>>)
       IN  /\ lazy_tex' = [lazy_tex EXCEPT !.raw_data = r.raw_data]
           /\ bt' = [bt EXCEPT !.nupd = @ + 1,
                               !.failure = IF updated THEN @ ELSE "update",
                               !.mismatch = @ \/ r.res = "SizeMismatch",
                               !.updated_id = tex.id]
           /\ IF r.res = "Panic" \/ ~updated
              THEN pc' = "panic" /\ UNCHANGED tex
              ELSE pc' = pc /\ tex' = u.tex
    /\ UNCHANGED <<texture, call, ui, nops, entity, brush, prev>>

\* process_queued returns Err(TextureTooSmall { suggested }): the engine found
\* no room before it wrote any glyph; it keeps its queue.
AnswerTooSmall(suggested) ==
    /\ pc = "caching"
    /\ bt.nupd = 0
    /\ suggested \in Suggestions(brush)
    /\ bt' = [bt EXCEPT !.suggested = suggested, !.ntoosmall = Sat(@),
                        !.answers = Logged(@, [kind |-> "TextureTooSmall",
                                               suggested |-> suggested])]
    /\ pc' = "grow_resize"
    /\ UNCHANGED <<lazy_tex, texture, call, ui, nops, entity, tex, brush, prev>>

\* process_queued returns Ok(BrushAction::Draw(vertices)): one vertex record
\* per glyph, each through into_vertex.
AnswerDraw ==
    /\ pc = "caching"
    /\ Len(brush.queue) = 1
    /\ brush' = AfterDraw(brush)
    /\ bt' = [bt EXCEPT !.action = "Draw",
                        !.glyphs = Layout(brush.queue[1]),
                        !.vertices = [k \in 1..Len(Layout(brush.queue[1])) |->
                                         into_vertex(Layout(brush.queue[1])[k])],
                        !.answers = Logged(@, [kind |-> "Ok",
                                               suggested |-> <<0, 0>>])]
    /\ pc' = "match"
    /\ UNCHANGED <<lazy_tex, texture, call, ui, nops, entity, tex, prev>>

\* self.lazy_tex.resize(suggested)
GrowResize ==
    /\ pc = "grow_resize"
    /\ lazy_tex' = resize(lazy_tex, bt.suggested)
    /\ bt' = [bt EXCEPT !.nresize = Sat(@)]
    /\ pc' = "grow_create"
    /\ UNCHANGED <<texture, call, ui, nops, entity, tex, brush, prev>>

\* std::mem::replace(tex, create_texture_static(..).expect("Hey"))
GrowCreate(created) ==
    /\ pc = "grow_create"
    /\ IF created /\ CanCreate(bt.suggested)
       THEN /\ tex' = [create_texture_static(bt.suggested)
                          EXCEPT !.id = NextId(tex.id)]
            /\ pc' = "grow_blend"
            /\ UNCHANGED bt
       ELSE /\ pc' = "panic"
            /\ bt' = [bt EXCEPT !.failure = "create"]
            /\ UNCHANGED tex
    /\ UNCHANGED <<lazy_tex, texture, call, ui, nops, entity, brush, prev>>

\* tex.set_blend_mode(BlendMode::Blend)
GrowBlend ==
    /\ pc = "grow_blend"
    /\ tex' = set_blend_mode(tex, "Blend")
    /\ pc' = "grow_notify"
    /\ UNCHANGED <<lazy_tex, texture, call, ui, nops, entity, brush, bt, prev>>

\* glyph_brush.resize_texture(suggested.0, suggested.1), and round the loop
GrowNotify ==
    /\ pc = "grow_notify"
    /\ brush' = resize_texture(brush, bt.suggested)
    /\ pc' = "loop"
    /\ UNCHANGED <<lazy_tex, texture, call, ui, nops, entity, tex, bt, prev>>

\* After the loop: the match on the brush action, and Ok(self.built.clone()).
MatchAndReturn ==
    /\ pc = "match"
    /\ LET built == match_brush_action(entity.built, bt.action, bt.vertices)
       IN  /\ entity' = [entity EXCEPT !.built = built]
           /\ bt' = [bt EXCEPT !.active = FALSE, !.returned = TRUE,
                               !.ret = built]
    /\ pc' = "main"
    /\ UNCHANGED <<lazy_tex, texture, call, ui, nops, tex, brush, prev>>

\* main: pre_sdl_text.text = ...; the text or the scale of the entity changes.
Mutate(text, size) ==
    /\ pc = "main"
    /\ nops < MaxBuilds
    /\ <<text, size>> # <<entity.text, entity.size>>
    /\ entity' = [entity EXCEPT !.text = text, !.size = size]
    /\ bt' = [bt EXCEPT !.dirty = TRUE]
    /\ UNCHANGED <<lazy_tex, texture, call, ui, pc, nops, tex, brush, prev>>

\* main: another entity (pre_sdl_text2) has its text laid out by the same
\* brush, which then holds that draw as its last one.
OtherEntityBuild ==
    /\ pc = "main"
    /\ nops < MaxBuilds
    /\ brush' = [brush EXCEPT !.last_draw = DrawOf(<<OtherSection>>)]
    /\ bt' = [bt EXCEPT !.dirty = TRUE]
    /\ UNCHANGED <<lazy_tex, texture, call, ui, pc, nops, entity, tex, prev>>

NextText ==
    \/ BuildTextStart
    \/ ProcessReDraw
    \/ ProcessBegin
    \/ \E rect \in Rects, updated \in BOOLEAN : PixelUpdate(rect, updated)
    \/ \E suggested \in AtlasDims : AnswerTooSmall(suggested)
    \/ AnswerDraw
    \/ GrowResize
    \/ \E created \in BOOLEAN : GrowCreate(created)
    \/ GrowBlend
    \/ GrowNotify
    \/ MatchAndReturn
    \/ \E text \in Texts, size \in Sizes : Mutate(text, size)
    \/ OtherEntityBuild

SpecText == InitText /\ [][NextText]_vars

\* The program runs on: a step that can be taken is taken.
FairSpecText == SpecText /\ WF_vars(NextText)

(***************************************************************************)
(* The SDL engine: components are built, the window is built, frames are   *)
(* rendered. pc: "main" between calls, "render" inside SDLWindow::render,  *)
(* "panic" once the process has halted.                                    *)
(***************************************************************************)
\* A body of two polygons: one without vertices, then the icon's triangle.
MixedBody ==
    SDLBody("Mixed",
            << SDLTexturedPolygon(SDLPolygon(<<>>, <<>>), "None") >>
            \o RUIIcon_build(RUIIcon, RUIIcon).value.polygons)

\* The bodies a frame is made of: what the builds return, and the body of
\* two polygons.
FrameBodies ==
    { build(c, RUIIcon).value : c \in { d \in Components :
                                          build(d, RUIIcon).returned } }
    \cup { MixedBody }

\* The erased drawables: what the build_dyn calls return, and a foreign one.
Drawables ==
    { build_dyn(c, RUIIcon).value : c \in { d \in Components :
                                              build_dyn(d, RUIIcon).returned } }
    \cup { ForeignDrawable }

\* The lists of bodies handed to render: up to two bodies.
FrameLists ==
    { <<>> } \cup { <<a>> : a \in FrameBodies }
             \cup { <<a, b>> : a \in FrameBodies, b \in FrameBodies }

\* The polygons of the bodies from the b-th on, the last body first.
RECURSIVE PolygonsLastBodyFirst(_, _)
PolygonsLastBodyFirst(drawables, b) ==
    IF b > Len(drawables) THEN <<>>
    ELSE PolygonsLastBodyFirst(drawables, b + 1)
         \o [k \in 1..Len(drawables[b].polygons) |->
               [body |-> b, polygon |-> k,
                tex_poly |-> drawables[b].polygons[k]]]

\* The polygons of the bodies from the b-th on, in the order the two loops
\* of render visit them.
RECURSIVE PolygonsInOrder(_, _)
PolygonsInOrder(drawables, b) ==
    IF b > Len(drawables) THEN <<>>
    ELSE [k \in 1..Len(drawables[b].polygons) |->
             [body |-> b, polygon |-> k, tex_poly |-> drawables[b].polygons[k]]]
         \o PolygonsInOrder(drawables, b + 1)

InitBuild ==
    /\ lazy_tex = new_empty
    /\ texture = NoTexture
    /\ call = NoCall
    /\ pc = "main"
    /\ nops = 0
    /\ IdleText
    /\ ui = IdleUi

\* c.build(parent) on a component of any variant.
ComponentBuild(c, parent) ==
    /\ pc = "main"
    /\ nops < MaxOps
    /\ nops' = nops + 1
    /\ LET r == build(c, parent) IN
          /\ ui' = [ui EXCEPT !.built = [some |-> TRUE, comp |-> c,
                                         parent |-> parent, result |-> r]]
          /\ pc' = IF r.returned THEN pc ELSE "panic"
    /\ UNCHANGED <<lazy_tex, texture, call, textVars>>

\* c.build_dyn(parent) on a component of any variant.
ComponentBuildDyn(c, parent) ==
    /\ pc = "main"
    /\ nops < MaxOps
    /\ nops' = nops + 1
    /\ LET r == build_dyn(c, parent) IN
          /\ ui' = [ui EXCEPT !.dyn = [some |-> TRUE, comp |-> c,
                                       parent |-> parent, result |-> r]]
          /\ pc' = IF r.returned THEN pc ELSE "panic"
    /\ UNCHANGED <<lazy_tex, texture, call, textVars>>

\* drawable.dyn_to_sdl_body() on what the last build_dyn returned, or on a
\* drawable of a foreign type.
DynToSdlBody(drawable) ==
    /\ pc = "main"
    /\ nops < MaxOps
    /\ nops' = nops + 1
    /\ \/ drawable = ForeignDrawable
       \/ ui.dyn.some /\ ui.dyn.result = Returns(drawable)
    /\ LET r == dyn_to_sdl_body(drawable) IN
          /\ ui' = [ui EXCEPT !.cast = [some |-> TRUE, drawable |-> drawable,
                                        result |-> r]]
          /\ pc' = IF r.returned THEN pc ELSE "panic"
    /\ UNCHANGED <<lazy_tex, texture, call, textVars>>

\* c.get_height() or c.get_width() on a component of any variant.
GetDimension(c, which) ==
    /\ pc = "main"
    /\ nops < MaxOps
    /\ nops' = nops + 1
    /\ LET r == IF which = "height" THEN get_height(c) ELSE get_width(c) IN
          /\ ui' = [ui EXCEPT !.dim = [some |-> TRUE, comp |-> c,
                                       which |-> which, result |-> r]]
          /\ pc' = IF r.returned THEN pc ELSE "panic"
    /\ UNCHANGED <<lazy_tex, texture, call, textVars>>

\* main_loop: let drawables = sdl_window.build(window)
WindowBuild(window) ==
    /\ pc = "main"
    /\ nops < MaxOps
    /\ nops' = nops + 1
    /\ ui' = [ui EXCEPT !.window = window,
                        !.drawables = SDLWindow_build(window)]
    /\ UNCHANGED <<lazy_tex, texture, call, pc, textVars>>

\* render up to its loops: the canvas is cleared.
RenderStart(drawables) ==
    /\ pc = "main"
    /\ nops < MaxOps
    /\ nops' = nops + 1
    /\ ui' = [ui EXCEPT !.frame = [NoFrame EXCEPT !.active = TRUE,
                                                  !.drawables = drawables]]
    /\ pc' = "render"
    /\ UNCHANGED <<lazy_tex, texture, call, textVars>>

\* render_geometry on the next polygon: nothing is submitted for a polygon
\* without vertices; SDL_RenderGeometry returns ret, and -1 makes render
\* return Err through the ? operator.
RenderGeometry(ret) ==
    /\ pc = "render"
    /\ LET order == PolygonsInOrder(ui.frame.drawables, 1)
           n == Len(ui.frame.submitted) + 1
       IN  /\ n <= Len(order)
           /\ IF order[n].tex_poly.poly.vers = <<>>
              THEN /\ ui' = [ui EXCEPT !.frame.submitted =
                                Append(@, [body |-> order[n].body,
                                           polygon |-> order[n].polygon,
                                           submitted |-> FALSE])]
                   /\ pc' = pc
              ELSE IF ret = -1
              THEN /\ ui' = [ui EXCEPT !.frame.result = "Err",
                                       !.frame.active = FALSE]
                   /\ pc' = "main"
              ELSE /\ ui' = [ui EXCEPT !.frame.submitted =
                                Append(@, [body |-> order[n].body,
                                           polygon |-> order[n].polygon,
                                           submitted |-> TRUE])]
                   /\ pc' = pc
    /\ UNCHANGED <<lazy_tex, texture, call, nops, textVars>>

\* After the loops: canvas.copy(..).unwrap(), canvas.present(), Ok(()).
RenderPresent(copied) ==
    /\ pc = "render"
    /\ Len(ui.frame.submitted) = Len(PolygonsInOrder(ui.frame.drawables, 1))
    /\ IF copied
       THEN /\ ui' = [ui EXCEPT !.frame.presented = TRUE,
                                !.frame.result = "Ok",
                                !.frame.active = FALSE]
            /\ pc' = "main"
       ELSE /\ pc' = "panic"
            /\ UNCHANGED ui
    /\ UNCHANGED <<lazy_tex, texture, call, nops, textVars>>

NextBuild ==
    \/ \E c \in Components, parent \in Parents : ComponentBuild(c, parent)
    \/ \E c \in Components, parent \in Parents : ComponentBuildDyn(c, parent)
    \/ \E drawable \in Drawables : DynToSdlBody(drawable)
    \/ \E c \in Components, which \in {"height", "width"} :
          GetDimension(c, which)
    \/ \E window \in Windows : WindowBuild(window)
    \/ \E drawables \in FrameLists : RenderStart(drawables)
    \/ \E ret \in {0, -1} : RenderGeometry(ret)
    \/ \E copied \in BOOLEAN : RenderPresent(copied)

SpecBuild == InitBuild /\ [][NextBuild]_vars

(***************************************************************************)
(* Claims about the LazyTexture, checked under SpecTex.                    *)
(***************************************************************************)
BufferLen == Len(lazy_tex.raw_data)
TexW == lazy_tex.tex_dims[1]
TexH == lazy_tex.tex_dims[2]

\* C1: in every reachable state the alpha buffer holds exactly
\* width * height bytes of the current tex_dims (0 for the fresh 0x0 texture).
C1_BufferLenIsArea == BufferLen = TexW * TexH

\* C1 witness: a texture resized to unequal dimensions and then updated.
C1_Witness ==
    /\ call.op = "lazy_update"
    /\ lazy_tex.tex_dims = <<2, 1>>
    /\ BufferLen = 2

FullRect == [min |-> <<0, 0>>, max |-> lazy_tex.tex_dims]

\* C2 (as claimed): a lazy_update of the full rectangle [0,w) x [0,h) with
\* exactly w*h bytes returns Ok, whatever w and h are.
C2_FullUpdateOk ==
    (/\ call.op = "lazy_update"
     /\ call.rect = FullRect
     /\ Len(call.data) = TexW * TexH)
    => call.res = "Ok"

\* C3 (as claimed, on the rectangles that lie inside the texture): a
\* lazy_update whose payload length differs from the pixel count of its
\* rectangle returns SizeMismatch, never Ok.
C3_MismatchReported ==
    (/\ call.op = "lazy_update"
     /\ RectInside(call.rect, lazy_tex.tex_dims)
     /\ Len(call.data) # RectPixels(call.rect))
    => call.res = "SizeMismatch"

\* The cell of buffer index i (from 0) lies in rect: column i mod w, row i div w.
CellInRect(i, w, rect) ==
    /\ i % w >= rect.min[1] /\ i % w < rect.max[1]
    /\ i \div w >= rect.min[2] /\ i \div w < rect.max[2]

IsLazyUpdateStep == nops' = nops + 1 /\ call'.op = "lazy_update"

\* C4 (as claimed): a lazy_update leaves every cell outside its rectangle as
\* it was.
C4_NoWriteOutsideRect ==
    [][IsLazyUpdateStep =>
          \A i \in 0..(BufferLen - 1) :
             ~CellInRect(i, TexW, call'.rect)
                => lazy_tex'.raw_data[i + 1] = lazy_tex.raw_data[i + 1]]_vars

IsMaterialization == call.op \in {"create_texture", "update"} /\ call.res = "Ok"

PixelOf(color, a) == <<color.r, color.g, color.b, a>>

\* C5: materialization turns the k-th alpha byte a into the k-th RGBA pixel
\* (fg.r, fg.g, fg.b, a): in the bytes handed to the backend, and in the
\* pixels of the texture create_texture returns.
C5_OnePixelPerAlpha ==
    IsMaterialization =>
       /\ Len(call.new_data) = BytesPerPixel * BufferLen
       /\ \A k \in 1..BufferLen :
             SubSeq(call.new_data, BytesPerPixel * (k - 1) + 1,
                    BytesPerPixel * k)
                = PixelOf(call.color, lazy_tex.raw_data[k])
       /\ call.op = "create_texture" =>
             /\ texture.dims = lazy_tex.tex_dims
             /\ texture.pixels =
                   [k \in 1..BufferLen |->
                       PixelOf(call.color, lazy_tex.raw_data[k])]

\* C5 witness: a texture materialized from a buffer that holds a fully opaque
\* and a fully transparent byte.
C5_Witness ==
    /\ call.op = "create_texture" /\ call.res = "Ok"
    /\ \E k \in 1..BufferLen : lazy_tex.raw_data[k] = 255
    /\ \E k \in 1..BufferLen : lazy_tex.raw_data[k] = 0

(***************************************************************************)
(* Claims about build_text, checked under SpecText and FairSpecText.       *)
(***************************************************************************)
Returned == pc = "main" /\ bt.returned

TooSmallAnswer(s) == [kind |-> "TextureTooSmall", suggested |-> s]

\* C6: when the engine answers the first process call of a build_text with
\* TextureTooSmall{suggested} and that is its only such answer (the next call
\* succeeds), build_text returns with the Lazy Texture at the suggested
\* dimensions, having called process exactly twice and resize exactly once.
\* The suggested size ranges over the atlas sizes of the model.
C6_OneRetry ==
    \A s \in AtlasDims :
       (Returned /\ bt.answers = <<TooSmallAnswer(s)>> /\ bt.ntoosmall = 1)
       => /\ lazy_tex.tex_dims = s
          /\ bt.nprocess = 2
          /\ bt.nresize = 1

\* C6 witness: a build_text that returned after one TextureTooSmall answer
\* suggesting a 2x1 atlas.
C6_Witness ==
    /\ Returned
    /\ bt.answers = <<TooSmallAnswer(<<2, 1>>)>>
    /\ bt.ntoosmall = 1
    /\ bt.nprocess = 2
    /\ lazy_tex.tex_dims = <<2, 1>>

\* C7 (as claimed): a build_text that has entered its loop eventually stops:
\* it returns or the process halts.
C7_BuildTextStops == bt.active ~> (~bt.active \/ pc = "panic")

\* C8: a build_text that follows a returned build_text on the same entity with
\* nothing changed in between gets ReDraw, leaves built as it was and returns
\* what the first call returned; a Draw(vertices) makes built those vertices.
C8_ReDrawKeepsBuilt ==
    /\ (Returned /\ prev.valid) =>
          /\ bt.action = "ReDraw"
          /\ entity.built = prev.ret
          /\ bt.ret = prev.ret
    /\ (Returned /\ bt.action = "Draw") =>
          /\ entity.built = bt.vertices
          /\ bt.ret = bt.vertices

\* C8 witness: the second of two build_text calls returned the three polygons
\* of the first.
C8_Witness ==
    /\ Returned
    /\ prev.valid
    /\ bt.action = "ReDraw"
    /\ Len(prev.ret) = 3
    /\ bt.ret = prev.ret

IsQuad(p) == Len(p.vers) = 4 /\ p.inds = <<0, 1, 2, 2, 3, 0>>

\* C9: every polygon build_text returns is a quad, 4 vertices with the index
\* list [0,1,2,2,3,0], and a Draw yields one quad per glyph vertex record of
\* the engine; the into_vertex of engines.rs builds the same shape.
C9_QuadPerGlyph ==
    Returned =>
       /\ \A k \in 1..Len(bt.ret) : IsQuad(bt.ret[k])
       /\ bt.action = "Draw" =>
             /\ Len(bt.ret) = Len(bt.glyphs)
             /\ \A k \in 1..Len(bt.glyphs) :
                   IsQuad(sdl_into_vertex(bt.glyphs[k]))

\* C9 witness: a Draw of a three-glyph text returned three polygons.
C9_Witness ==
    /\ Returned
    /\ bt.action = "Draw"
    /\ Len(bt.glyphs) = 3
    /\ Len(bt.ret) = 3

(***************************************************************************)
(* Claims about the SDL engine, checked under SpecBuild.                   *)
(***************************************************************************)
\* Every index of the polygon is an offset into its vertices, and a polygon
\* with vertices has at least three.
PolygonConsistent(p) ==
    /\ \A k \in 1..Len(p.inds) : p.inds[k] >= 0 /\ p.inds[k] < Len(p.vers)
    /\ Len(p.vers) > 0 => Len(p.vers) >= 3

BodyConsistent(body) ==
    \A k \in 1..Len(body.polygons) : PolygonConsistent(body.polygons[k].poly)

C11_ContainerElaborates ==
    (/\ ui.built.some
     /\ ui.built.comp \in {Container(<<TextField, Button>>), TextField, Button})
    => /\ ui.built.result.returned
       /\ pc # "panic"

\* C12: a build_dyn that returns hands out a box holding an SDLBody, the one
\* the static build of the same component and parent returns, and
\* dyn_to_sdl_body on it yields that body; dyn_to_sdl_body on a box holding
\* another type halts the process and yields nothing.
C12_SingleDrawableKind ==
    /\ (ui.dyn.some /\ ui.dyn.result.returned) =>
          /\ build(ui.dyn.comp, ui.dyn.parent).returned
          /\ ui.dyn.result.value =
                BoxDyn("SDLBody", build(ui.dyn.comp, ui.dyn.parent).value)
    /\ (ui.cast.some /\ ui.cast.drawable.type = "SDLBody") =>
          ui.cast.result = Returns(ui.cast.drawable.value)
    /\ (ui.cast.some /\ ui.cast.drawable.type # "SDLBody") =>
          ~ui.cast.result.returned /\ pc = "panic"

\* C12 witness: the box the build_dyn of the RUIIcon returned was cast back
\* to the icon's body.
C12_Witness ==
    /\ ui.dyn.some /\ ui.dyn.comp = RUIIcon /\ ui.dyn.result.returned
    /\ ui.cast.some
    /\ ui.cast.drawable = ui.dyn.result.value
    /\ ui.cast.result = RUIIcon_build(RUIIcon, ui.dyn.parent)

\* C13: what SDLWindow::build returns starts with the body of the RUIIcon,
\* one polygon of three vertices, no indices and no texture; the body of the
\* MainMenu follows exactly when the window has a menu; nothing else follows,
\* whether the window has a container or a status bar or not.
C13_IconThenMenu ==
    ui.drawables # <<>> =>
       /\ ui.drawables[1].name = "RUIIcon"
       /\ Len(ui.drawables[1].polygons) = 1
       /\ Len(ui.drawables[1].polygons[1].poly.vers) = 3
       /\ ui.drawables[1].polygons[1].poly.inds = <<>>
       /\ ui.drawables[1].polygons[1].tex = "None"
       /\ Len(ui.drawables) = IF ui.window.menu THEN 2 ELSE 1
       /\ ui.window.menu => ui.drawables[2] = SDLBody("MainMenu", <<>>)

\* C13 witness: a window with a menu, a container and a status bar was built
\* into two bodies.
C13_Witness ==
    /\ ui.window.menu /\ ui.window.container /\ ui.window.status_bar
    /\ Len(ui.drawables) = 2
    /\ ui.drawables[2].name = "MainMenu"

DimensionTags == {"Relative", "Percentage", "Pixels"}

\* C14 (as claimed): get_height and get_width of a component of any variant
\* return a Dimension, Relative, Percentage or Pixels; they do not fail.
C14_AlwaysHasDimensions ==
    ui.dim.some =>
       /\ ui.dim.result.returned
       /\ ui.dim.result.value.tag \in DimensionTags
       /\ pc # "panic"

(***************************************************************************)
(* Claims about the failures inside build_text, checked under SpecText.    *)
(***************************************************************************)
\* C15 (as claimed): when the backend fails to create the texture of an atlas
\* growth or to update a texture region, the process does not halt:
\* build_text is left with the failure as its result.
C15_BackendFailureIsResult ==
    bt.failure # "none" => pc # "panic" /\ ~bt.active

\* C16 (as claimed): a build_text in which a pixel-update callback got
\* SizeMismatch from lazy_update does not return Ok with a polygon list.
C16_MismatchIsReported == bt.mismatch => ~Returned

(***************************************************************************)
(* More claims about the LazyTexture, checked under SpecTex.               *)
(***************************************************************************)
\* C17 (as claimed): right after a resize every cell of the buffer is blank
\* (zero), whatever the buffer held before.
C17_ResizeBlanks ==
    call.op = "resize" => \A k \in 1..BufferLen : lazy_tex.raw_data[k] = 0

\* C18 (as claimed): after a lazy_update that returned Ok on a rectangle R
\* inside the texture, the cell at column x, row y of R (index y * w + x)
\* holds the payload byte at offset (y - R.min_y) * R.width + (x - R.min_x).
C18_RowMajorSplice ==
    (/\ call.op = "lazy_update"
     /\ call.res = "Ok"
     /\ RectInside(call.rect, lazy_tex.tex_dims))
    => \A x \in call.rect.min[1]..(call.rect.max[1] - 1),
          y \in call.rect.min[2]..(call.rect.max[2] - 1) :
          LET off == (y - call.rect.min[2]) * RectWidth(call.rect)
                     + (x - call.rect.min[1])
          IN  /\ off < Len(call.data)
              /\ lazy_tex.raw_data[y * TexW + x + 1] = call.data[off + 1]

(***************************************************************************)
(* The order of the atlas growth, checked under SpecText.                  *)
(***************************************************************************)
Grown ==
    /\ lazy_tex.tex_dims = bt.suggested
    /\ tex.live /\ tex.dims = bt.suggested

\* C19: after a TextureTooSmall{suggested} answer the Lazy Texture is resized
\* to suggested first, then the backend texture is replaced by a new one of
\* that size, given blend mode Blend, then the engine is told the new atlas
\* size, and only then process is called again: one more process call than
\* TextureTooSmall answers, one resize per answer. A pixel update goes to the
\* backend texture in place at that time, and the text is queued once.
C19_GrowthOrder ==
    /\ pc = "grow_create" => lazy_tex.tex_dims = bt.suggested
    /\ pc = "grow_blend" => Grown
    /\ pc = "grow_notify" => Grown /\ tex.blend = "Blend"
    /\ (bt.active /\ pc \in {"loop", "caching", "match"} /\ bt.ntoosmall > 0)
          => /\ Grown /\ tex.blend = "Blend"
             /\ texture_dimensions(brush) = bt.suggested
             /\ bt.nresize = bt.ntoosmall
    /\ (bt.active /\ pc \in {"caching", "match"})
          => bt.nprocess = Sat(bt.ntoosmall)
    /\ (bt.active /\ pc \in {"caching", "match"} /\ bt.nupd > 0)
          => bt.updated_id = tex.id
    /\ bt.active => bt.nqueue = 1 /\ Len(brush.queue) <= 1

\* C19 witness: after one growth to 2x2 the engine was asked again and wrote
\* a pixel of the new texture.
C19_Witness ==
    /\ bt.active /\ pc = "caching"
    /\ bt.ntoosmall = 1 /\ bt.nprocess = 2 /\ bt.nupd = 1
    /\ bt.suggested = <<2, 2>>
    /\ tex.dims = <<2, 2>> /\ tex.id = 1 /\ bt.updated_id = 1

(***************************************************************************)
(* Claims about SDLWindow::render, checked under SpecBuild.                *)
(***************************************************************************)
\* The places of the polygons of a frame: <<body, polygon>>.
Places(drawables) ==
    UNION { { <<b, k>> : k \in 1..Len(drawables[b].polygons) } :
            b \in 1..Len(drawables) }

Before(a, b) == a[1] < b[1] \/ (a[1] = b[1] /\ a[2] < b[2])

Visited == ui.frame.submitted

\* C20: render goes through the polygons body by body in list order and
\* polygon by polygon in body order, the k-th visited being the k-th in that
\* order, submitting those with vertices and skipping those without; when a
\* submission fails render has returned Err, the failed polygon and all later
\* ones are not submitted and the frame is not presented; a presented frame
\* has visited every polygon.
C20_RenderInOrder ==
    LET places == Places(ui.frame.drawables) IN
    /\ \A k \in 1..Len(Visited) :
          LET pl == <<Visited[k].body, Visited[k].polygon>> IN
          /\ pl \in places
          /\ Cardinality({ q \in places : Before(q, pl) }) = k - 1
          /\ Visited[k].submitted
               = (ui.frame.drawables[pl[1]].polygons[pl[2]].poly.vers # <<>>)
    /\ ui.frame.result = "Err" =>
          /\ pc # "render" /\ ~ui.frame.active /\ ~ui.frame.presented
          /\ Len(Visited) < Cardinality(places)
    /\ ui.frame.presented =>
          /\ ui.frame.result = "Ok"
          /\ Len(Visited) = Cardinality(places)

\* C20 witness: of a frame of the icon and the body of two polygons the
\* icon's triangle was submitted, the polygon without vertices skipped, the
\* last triangle failed, and render returned Err.
C20_Witness ==
    /\ ui.frame.result = "Err"
    /\ Len(ui.frame.drawables) = 2
    /\ Cardinality(Places(ui.frame.drawables)) = 3
    /\ Len(Visited) = 2
    /\ Visited[1].submitted
    /\ ~Visited[2].submitted

IsFailedLazyUpdateStep == IsLazyUpdateStep /\ call'.res = "SizeMismatch"

\* C21 (as claimed): a lazy_update that returns SizeMismatch leaves the Lazy
\* Texture as it was, alpha buffer and tex_dims both, whether the payload was
\* too short or too long.
C21_FailedUpdateChangesNothing ==
    [][IsFailedLazyUpdateStep => lazy_tex' = lazy_tex]_vars

\* C21 (amended): a lazy_update that returns SizeMismatch leaves tex_dims and
\* the length of the alpha buffer as they were, and every cell of the buffer
\* either keeps its value or holds a byte of the payload: the cells matched
\* before the mismatch was detected are already overwritten.
C21_FailedUpdateKeepsShape ==
    [][IsFailedLazyUpdateStep =>
          /\ lazy_tex'.tex_dims = lazy_tex.tex_dims
          /\ Len(lazy_tex'.raw_data) = Len(lazy_tex.raw_data)
          /\ \A i \in 1..Len(lazy_tex.raw_data) :
                \/ lazy_tex'.raw_data[i] = lazy_tex.raw_data[i]
                \/ \E k \in 1..Len(call'.data) :
                      lazy_tex'.raw_data[i] = call'.data[k]]_vars

\* A too-long payload was rejected after all four cells of a 2x2 texture had
\* been overwritten with its first four bytes.
C21_Witness ==
    /\ call.op = "lazy_update" /\ call.res = "SizeMismatch"
    /\ lazy_tex.tex_dims = <<2, 2>>
    /\ Len(call.data) = 5
    /\ lazy_tex.raw_data = SubSeq(call.data, 1, 4)

(***************************************************************************)
(* The Lazy Texture of the entity against the atlas of the engine, checked *)
(* under SpecText.                                                         *)
(***************************************************************************)
\* C22 (as claimed): once build_text has returned Ok, the dimensions of the
\* entity's Lazy Texture are the engine's current atlas dimensions, also
\* when the entity started at 0x0 and the engine, holding a non-empty atlas,
\* never answered TextureTooSmall.
C22_DimsFollowAtlas ==
    Returned => lazy_tex.tex_dims = texture_dimensions(brush)

====
